---------------------------- MODULE Spec2Model ----------------------------
(***************************************************************************)
(* Evolutionary pattern search of harper's "mirror" tool.                  *)
(*                                                                         *)
(*   src/src/main.rs    score, the generational loop of main,              *)
(*                      permute_mirror_unique                              *)
(*   src/src/mirror.rs  MirrorAtom / MirrorLayer / MirrorNode / Mirror and *)
(*                      their mutation operators                           *)
(*                                                                         *)
(* The specifications of this module share its variables:                  *)
(*   SpecScore   score applied to two candidates whose matcher yields are  *)
(*               drawn from bounded sets                                   *)
(*   SpecScan    score, one step per match requested from the matcher      *)
(*   SpecLoop    the for-loop of main, one action per statement            *)
(*   SpecPar     the parallel key phase of par_sort_by_cached_key          *)
(*   SpecMirror  Mirror::create_children_with_mutations over the tree      *)
(*               mutation operators of mirror.rs                           *)
(*   SpecNode    Mirror::mutate applied repeatedly to one tree             *)
(*   SpecLeaf    MirrorNode::mutate applied repeatedly to a Leaf           *)
(*   SpecPermute permute_mirror_unique and apply_random_edit building the  *)
(*               children of one lineage of flat sequences                 *)
(*   SpecDistinct, SpecDistinctFair                                        *)
(*               one call of distinct_words, its recursion included        *)
(*   SpecRoot    one call of Mirror::mutate, the previous root recorded    *)
(***************************************************************************)
EXTENDS Integers, Sequences, FiniteSets, TLC

\* ------------------------------------------------------------------ bounds
\* number of documents of problems() (40 in the source)
NumProblems == 1
\* number of documents of clean() (93 in the source)
NumClean == 1
\* largest number of spans the external matcher yields on one document
MaxMatches == 2

\* largest --min-pop drawn (Args::min_pop, any usize in the source)
MaxMinPop == 2
\* largest --child-ratio drawn (Args::child_ratio, any usize in the source)
MaxChildRatio == 1
\* iterations of the for loop of main (0..200 in the source)
Generations == 2
\* the depth of the recursion of distinct_words is counted modulo MaxRetry + 1
MaxRetry == 1

\* size of the UPOS enumeration (UPOS::iter(), 16 tags in the source)
NumUPOS == 2
\* longest tag list of a UPOS atom followed (SmallVec, unbounded in the source)
MaxTags == 1
\* longest atom sequence of a leaf followed (Vec, unbounded in the source)
MaxSeqLen == 1
\* number of words of word_pool (up to 5000 in the source)
MaxPool == 2
\* longest flat atom sequence of an individual followed (Vec, unbounded in
\* the source)
MaxFlatLen == 2
\* largest k handed to distinct_words (usize in the source)
MaxK == 2
\* longest avoid list handed to distinct_words (Vec, unbounded in the source)
MaxAvoid == 2
\* main.rs:139  for _ in 0..6
EditRounds == 6
\* largest number of nodes of a tree followed (unbounded in the source)
MaxNodes == 3
\* largest number of nodes of a tree followed by SpecNode
TreeMaxNodes == 4
\* largest number of atoms, over all its leaves, of a tree followed by SpecNode
TreeMaxAtoms == 1
\* longest atom sequence of a leaf followed by SpecLeaf
LeafMaxLen == 2
\* longest tag list of a UPOS atom followed by SpecLeaf
LeafMaxTags == 2
\* longest slice handed to par_sort_by_cached_key in SpecPar
MaxSlice == 2
\* largest child_count drawn for create_children_with_mutations
MaxChildCount == 2
\* largest max_mutations drawn for create_children_with_mutations
MaxMutations == 2

ProblemDocs == 1..NumProblems
CleanDocs == 1..NumClean
MatchCounts == 0..MaxMatches

\* What iter_matches_in_doc yields for one candidate: the number of spans on
\* every problem document (pm) and on every clean document (cm).  The matcher
\* is external to main.rs; its yields are inputs.
Yields == [pm : [ProblemDocs -> MatchCounts], cm : [CleanDocs -> MatchCounts]]

\* ------------------------------------------------------- main.rs: score ---
\* main.rs:380  if matches.len() == 1 { correct += 1 }
ProblemCorrectAtLeastOne(n) == IF n >= 1 THEN 1 ELSE 0
ProblemCorrect(n) == IF n = 1 THEN 1 ELSE 0

\* main.rs:388  if candidate.iter_matches_in_doc(&doc).count() == 0 { correct += 1 }
CleanCorrectAtMostOne(n) == IF n <= 1 THEN 1 ELSE 0
CleanCorrect(n) == IF n = 0 THEN 1 ELSE 0

\* main.rs:374-383  the loop over problems(), starting from correct = 0:
\* acc[k] is `correct` after the first k documents
ScoreProblems(pm) ==
    LET acc[k \in 0..NumProblems] ==
            IF k = 0 THEN 0 ELSE acc[k - 1] + ProblemCorrect(pm[k])
    IN  acc[NumProblems]

\* main.rs:385-391  the loop over clean(), continuing from `correct`
ScoreCleanIgnored(correct0, cm) == correct0
ScoreClean(correct0, cm) ==
    LET acc[k \in 0..NumClean] ==
            IF k = 0 THEN correct0 ELSE acc[k - 1] + CleanCorrect(cm[k])
    IN  acc[NumClean]

\* main.rs:369-394
score(y) == ScoreClean(ScoreProblems(y.pm), y.cm)

\* ------------------------------------------- main.rs: flat candidates -----
\* main.rs Mirror { seq }, with the atoms main.rs constructs
AllowedWords(ws) == [t |-> "AllowedWords", words |-> ws, tags |-> {}]
DisallowedWords(ws) == [t |-> "DisallowedWords", words |-> ws, tags |-> {}]
UPOSAtom(ts) == [t |-> "UPOS", words |-> {}, tags |-> ts]
WhitespaceAtom == [t |-> "Whitespace", words |-> {}, tags |-> {}]

\* main.rs:33-35
SeedSeq == << AllowedWords({"too"}) >>

\* Complexity of a candidate as the specification's fitness section defines
\* it (1 per word atom, 1 per whitespace atom, |tags| per tag-set atom);
\* main.rs has no such function.
AtomCost(a) == IF a.t = "UPOS" THEN Cardinality(a.tags) ELSE 1
complexity(seq) ==
    LET acc[k \in 0..Len(seq)] ==
            IF k = 0 THEN 0 ELSE acc[k - 1] + AtomCost(seq[k])
    IN  acc[Len(seq)]

\* candidates handed to score in SpecScore
ScoreSeqs ==
    { SeedSeq,
      SeedSeq \o << WhitespaceAtom >>,
      SeedSeq \o << WhitespaceAtom, UPOSAtom({1, 2}) >> }

VARIABLES
    s_pc,       \* SpecScore: position in score: "start", "problems", "done"
    cands,      \* SpecScore: the two candidates, [seq, y]
    correct,    \* SpecScore: the accumulator `correct` of each candidate
    pc,         \* SpecLoop: position in main
    i,          \* SpecLoop: loop variable of `for i in 0..200`
    min_pop,    \* SpecLoop: args.min_pop
    child_ratio,\* SpecLoop: args.child_ratio
    mirs,       \* SpecLoop: the population
    perm_mirs,  \* SpecLoop: children collected in one generation
    pidx,       \* SpecLoop: position of `for mir in &mirs`
    out,        \* SpecLoop: permute_mirror_unique's `out`
    attempts,   \* SpecLoop: permute_mirror_unique's `attempts`
    retries,    \* SpecLoop: depth of the recursion of distinct_words,
                \* counted modulo MaxRetry + 1
    dropped,    \* SpecLoop: the elements the last mirs.truncate dropped
    m_pc,       \* SpecMirror: position in create_children_with_mutations
    parent,     \* SpecMirror: self.root of the parent Mirror
    child_count,   \* SpecMirror: parameter child_count
    max_mutations, \* SpecMirror: parameter max_mutations
    children,   \* SpecMirror: the roots of the Vec `children`
    child,      \* SpecMirror: the root of `child`
    mutation_count, \* SpecMirror: local mutation_count
    applied,    \* SpecMirror: iterations done of `for _ in 0..mutation_count`
    muts,       \* SpecMirror: for every pushed child, the number of
                \* child.mutate calls it went through
    lf_pc,      \* SpecLeaf: "leaf" while the node is a Leaf, then "promoted"
    lf_node,    \* SpecLeaf: the node MirrorNode::mutate is called on
    lf_prev,    \* SpecLeaf: the node before the last call
    lf_branch,  \* SpecLeaf: the branch the last call took
    lf_removed, \* SpecLeaf: whether the last call removed an atom (mirror.rs:80-83)
    n_pc,       \* SpecNode: "run", or "panic" once a call panicked
    n_root,     \* SpecNode: Mirror::root
    n_op,       \* SpecNode: the branch the last Mirror::mutate took
    sc_pc,      \* SpecScan: position in score
    sc_cand,    \* SpecScan: the candidate, [seq, y]
    sc_doc,     \* SpecScan: index of the document being scanned
    sc_seen,    \* SpecScan: matches the iterator returned on this document
    sc_requests,\* SpecScan: calls of the iterator's next() on this document
    sc_correct, \* SpecScan: the accumulator `correct`
    p_pc,       \* SpecPar: position in par_sort_by_cached_key
    p_mirs,     \* SpecPar: the slice being sorted
    p_start,    \* SpecPar: the slice when the call started
    p_keys,     \* SpecPar: the cached key of every index, -1 while not computed
    p_stage,    \* SpecPar: how far the call of score for every index has come
    p_correct,  \* SpecPar: the local `correct` of the call of score for every index
    pm_pc,      \* SpecPermute: position in permute_mirror_unique
    pm_base,    \* SpecPermute: base.seq
    pm_m,       \* SpecPermute: m.seq of the child being built
    pm_round,   \* SpecPermute: iterations done of `for _ in 0..6`
    dw_pc,      \* SpecDistinct: position in distinct_words
    dw_pool,    \* SpecDistinct: parameter pool
    dw_k,       \* SpecDistinct: parameter k
    dw_avoid,   \* SpecDistinct: parameter avoid, << >> for None, << list >> for Some
    dw_out,     \* SpecDistinct: local out
    r_pc,       \* SpecRoot: "call" before Mirror::mutate, then "returned"
    r_root,     \* SpecRoot: Mirror::root
    r_prev,     \* SpecRoot: the root before the call
    r_op        \* SpecRoot: the branch the call took

scoreVars == << s_pc, cands, correct >>
loopVars == << pc, i, min_pop, child_ratio, mirs, perm_mirs, pidx, out,
               attempts, retries, dropped >>
mirrorVars == << m_pc, parent, child_count, max_mutations, children, child,
                 mutation_count, applied, muts >>
leafVars == << lf_pc, lf_node, lf_prev, lf_branch, lf_removed >>
nodeVars == << n_pc, n_root, n_op >>
scanVars == << sc_pc, sc_cand, sc_doc, sc_seen, sc_requests, sc_correct >>
parVars == << p_pc, p_mirs, p_start, p_keys, p_stage, p_correct >>
permVars == << pm_pc, pm_base, pm_m, pm_round >>
dwVars == << dw_pc, dw_pool, dw_k, dw_avoid, dw_out >>
rootVars == << r_pc, r_root, r_prev, r_op >>
\* the variables of the specifications of one function each
fnVars == << permVars, dwVars, rootVars >>
\* the variables of the specifications that follow SpecMirror
restVars == << leafVars, nodeVars, scanVars, parVars, fnVars >>
vars == << scoreVars, loopVars, mirrorVars, restVars >>

ScoreIdle == s_pc = "idle" /\ cands = << >> /\ correct = << >>
LoopIdle ==
    /\ pc = "idle" /\ i = 0 /\ min_pop = 0 /\ child_ratio = 0
    /\ mirs = << >> /\ perm_mirs = << >> /\ pidx = 0 /\ out = << >>
    /\ attempts = 0 /\ retries = 0 /\ dropped = << >>
MirrorIdle ==
    /\ m_pc = "idle" /\ parent = << >> /\ child_count = 0
    /\ max_mutations = 0 /\ children = << >> /\ child = << >>
    /\ mutation_count = 0 /\ applied = 0 /\ muts = << >>
LeafIdle ==
    /\ lf_pc = "idle" /\ lf_node = << >> /\ lf_prev = << >>
    /\ lf_branch = "none" /\ lf_removed = FALSE
NodeIdle == n_pc = "idle" /\ n_root = << >> /\ n_op = "none"
ScanIdle ==
    /\ sc_pc = "idle" /\ sc_cand = << >> /\ sc_doc = 0 /\ sc_seen = 0
    /\ sc_requests = 0 /\ sc_correct = 0
ParIdle ==
    /\ p_pc = "idle" /\ p_mirs = << >> /\ p_start = << >> /\ p_keys = << >>
    /\ p_stage = << >> /\ p_correct = << >>
PermIdle == pm_pc = "idle" /\ pm_base = << >> /\ pm_m = << >> /\ pm_round = 0
DistinctIdle ==
    /\ dw_pc = "idle" /\ dw_pool = << >> /\ dw_k = 0 /\ dw_avoid = << >>
    /\ dw_out = << >>
RootIdle == r_pc = "idle" /\ r_root = << >> /\ r_prev = << >> /\ r_op = "none"
FnIdle == PermIdle /\ DistinctIdle /\ RootIdle
RestIdle == LeafIdle /\ NodeIdle /\ ScanIdle /\ ParIdle /\ FnIdle

\* ------------------------------------------------------------ SpecScore ---
ScoreInit ==
    /\ s_pc = "start"
    /\ cands \in [1..2 -> [seq : ScoreSeqs, y : Yields]]
    /\ correct = [c \in 1..2 |-> 0]
    /\ LoopIdle
    /\ MirrorIdle
    /\ RestIdle

\* main.rs:370-383
ScoreProblemLoop ==
    /\ s_pc = "start"
    /\ correct' = [c \in 1..2 |-> ScoreProblems(cands[c].y.pm)]
    /\ s_pc' = "problems"
    /\ UNCHANGED << cands, loopVars, mirrorVars, restVars >>

\* main.rs:385-393
ScoreCleanLoop ==
    /\ s_pc = "problems"
    /\ correct' = [c \in 1..2 |-> ScoreClean(correct[c], cands[c].y.cm)]
    /\ s_pc' = "done"
    /\ UNCHANGED << cands, loopVars, mirrorVars, restVars >>

ScoreNext == ScoreProblemLoop \/ ScoreCleanLoop

SpecScore == ScoreInit /\ [][ScoreNext]_vars

\* ------------------------------------------------- claims about score -----
ProblemOutcome(c, d) == cands[c].y.pm[d] = 1
CleanOutcome(c, d) == cands[c].y.cm[d] = 0

\* C2: score counts a problem document as correct if and only if the matcher
\* yields exactly one span on it: after the loop over problems(), `correct`
\* is the number of problem documents with exactly one span.
C2_ProblemExactlyOne ==
    s_pc = "problems" =>
        \A c \in 1..2 :
            correct[c] = Cardinality({d \in ProblemDocs : cands[c].y.pm[d] = 1})

C2_Witness ==
    /\ s_pc = "problems"
    /\ \E d \in ProblemDocs :
        /\ cands[1].y.pm[d] = 1
        /\ cands[2].y.pm[d] >= 2
        /\ \A e \in ProblemDocs \ {d} : cands[1].y.pm[e] = cands[2].y.pm[e]
    /\ correct[1] = correct[2] + 1

\* C3: score counts a clean document as correct if and only if the matcher
\* yields no span on it: the loop over clean() adds to `correct` the number of
\* clean documents with zero spans.
C3_CleanZero ==
    s_pc = "done" =>
        \A c \in 1..2 :
            correct[c] - Cardinality({d \in ProblemDocs : cands[c].y.pm[d] = 1})
                = Cardinality({d \in CleanDocs : cands[c].y.cm[d] = 0})

C3_Witness ==
    /\ s_pc = "done"
    /\ cands[1].y.pm = cands[2].y.pm
    /\ \E d \in CleanDocs :
        /\ cands[1].y.cm[d] = 0
        /\ cands[2].y.cm[d] = 1
        /\ \A e \in CleanDocs \ {d} : cands[1].y.cm[e] = cands[2].y.cm[e]
    /\ correct[1] = correct[2] + 1

SameOutcomes ==
    /\ \A d \in ProblemDocs : ProblemOutcome(1, d) <=> ProblemOutcome(2, d)
    /\ \A d \in CleanDocs : CleanOutcome(1, d) <=> CleanOutcome(2, d)

\* C4 (as claimed): of two candidates with identical correctness outcomes on
\* every document, the one with strictly lower complexity scores strictly
\* higher.
C4_LowerComplexityScoresHigher ==
    (s_pc = "done" /\ SameOutcomes
        /\ complexity(cands[1].seq) < complexity(cands[2].seq))
    => correct[1] > correct[2]

\* the documents on which the two candidates' correctness outcomes differ
DifferingDocs ==
    Cardinality({d \in ProblemDocs : ProblemOutcome(1, d) # ProblemOutcome(2, d)})
    + Cardinality({d \in CleanDocs : CleanOutcome(1, d) # CleanOutcome(2, d)})

NumCorrect(c) ==
    Cardinality({d \in ProblemDocs : ProblemOutcome(c, d)})
    + Cardinality({d \in CleanDocs : CleanOutcome(c, d)})

Abs(x) == IF x < 0 THEN 0 - x ELSE x

SetMax(S) == CHOOSE x \in S : \A z \in S : z <= x

YieldsSameOutcomes(a, b) ==
    /\ \A d \in ProblemDocs : (a.pm[d] = 1) <=> (b.pm[d] = 1)
    /\ \A d \in CleanDocs : (a.cm[d] = 0) <=> (b.cm[d] = 0)

\* the range of the part of the score that correctness does not decide: the
\* largest difference of score between two yields with identical outcomes
BonusRange ==
    SetMax({0} \cup { score(p[1]) - score(p[2]) :
                        p \in {q \in Yields \X Yields :
                                    YieldsSameOutcomes(q[1], q[2])} })

\* C5: correctness dominates: a change of the outcome of a single document
\* changes the score by strictly more than the whole range of the part of the
\* score that correctness does not decide, and a candidate correct on more
\* documents always scores higher, whatever the complexities.
C5_CorrectnessDominates ==
    s_pc = "done" =>
        /\ DifferingDocs = 1 => Abs(correct[1] - correct[2]) > BonusRange
        /\ NumCorrect(1) > NumCorrect(2) => correct[1] > correct[2]

C5_Witness ==
    /\ s_pc = "done"
    /\ DifferingDocs = 1
    /\ NumCorrect(1) > NumCorrect(2)
    /\ complexity(cands[1].seq) > complexity(cands[2].seq)
    /\ correct[1] > correct[2]

\* ------------------------------------------------- main.rs: main loop -----
\* usize::MAX of main.rs:38, at the width of the model's integers
UsizeMax == 2147483647

Min(a, b) == IF a <= b THEN a ELSE b
Max(a, b) == IF a >= b THEN a ELSE b

\* A member of the population, as the loop reads it: main only hands it to
\* score (main.rs:38, 43) and to permute_mirror_unique (main.rs:53), so it is
\* identified by what the matcher yields for its sequence.
Individuals == [y : Yields]

\* main.rs:38  the key of par_sort_by_cached_key
SortKeyAscendingScore(m) == score(m.y)
SortKey(m) == UsizeMax - score(m.y)

\* main.rs:38  par_sort_by_cached_key: a stable sort, ascending by key
RECURSIVE InsertByKey(_, _)
InsertByKey(x, s) ==
    IF s = << >> THEN << x >>
    ELSE IF SortKey(Head(s)) <= SortKey(x)
         THEN << Head(s) >> \o InsertByKey(x, Tail(s))
         ELSE << x >> \o s

RECURSIVE SortByCachedKey(_)
SortByCachedKey(s) ==
    IF s = << >> THEN << >>
    ELSE InsertByKey(s[Len(s)], SortByCachedKey(SubSeq(s, 1, Len(s) - 1)))

\* main.rs:48  Vec::truncate
TruncateKeepsAll(s, n) == s
Truncate(s, n) == SubSeq(s, 1, Min(n, Len(s)))

\* main.rs:61  the orders SliceRandom::shuffle can leave
Shuffles(s) ==
    { [k \in 1..Len(s) |-> s[p[k]]] : p \in Permutations(1..Len(s)) }

\* main.rs:37  `for i in 0..200` continues
LoopContinuesOneShort(n) == n + 1 < Generations
LoopContinues(n) == n < Generations

\* main.rs:116  the condition of the while loop of permute_mirror_unique
PermuteContinues(n) == Len(out) < n /\ attempts < n * 80

\* main.rs:119-132  the children one iteration of the while loop can build
\* from base: a clone of base.seq that is pushed to or edited in place, a new
\* sequence for which the external matcher yields anything.
ChildOf(base) == Individuals

LoopInit ==
    /\ ScoreIdle
    /\ MirrorIdle
    /\ RestIdle
    /\ min_pop \in 0..MaxMinPop
    /\ child_ratio \in 0..MaxChildRatio
    /\ mirs \in { << m >> : m \in Individuals }
    /\ i = 0
    /\ pc = IF LoopContinues(0) THEN "sort" ELSE "done"
    /\ perm_mirs = << >> /\ pidx = 0 /\ out = << >>
    /\ attempts = 0 /\ retries = 0 /\ dropped = << >>

\* main.rs:38
SortStep ==
    /\ pc = "sort"
    /\ mirs' = SortByCachedKey(mirs)
    /\ pc' = "report"
    /\ UNCHANGED << scoreVars, mirrorVars, restVars, i, min_pop, child_ratio, perm_mirs, pidx, out, attempts,
                    retries, dropped >>

\* main.rs:40-46  dbg! of the first three
Report ==
    /\ pc = "report"
    /\ pc' = "truncate"
    /\ UNCHANGED << scoreVars, mirrorVars, restVars, i, min_pop, child_ratio, mirs, perm_mirs, pidx, out,
                    attempts, retries, dropped >>

\* main.rs:48-50
TruncateStep ==
    /\ pc = "truncate"
    /\ mirs' = Truncate(mirs, min_pop)
    /\ dropped' = SubSeq(mirs, Len(mirs') + 1, Len(mirs))
    /\ perm_mirs' = << >>
    /\ pidx' = 1
    /\ pc' = "reproduce"
    /\ UNCHANGED << scoreVars, mirrorVars, restVars, i, min_pop, child_ratio, out, attempts, retries >>

\* main.rs:52  `for mir in &mirs`, and main.rs:110-115 on entry to
\* permute_mirror_unique
ForMir ==
    /\ pc = "reproduce"
    /\ IF pidx <= Len(mirs)
       THEN /\ pc' = "permute"
            /\ out' = << >>
            /\ attempts' = 0
            /\ retries' = 0
       ELSE /\ pc' = "append"
            /\ UNCHANGED << out, attempts, retries >>
    /\ UNCHANGED << scoreVars, mirrorVars, restVars, i, min_pop, child_ratio, mirs, perm_mirs, pidx, dropped >>

\* main.rs:116-133  one iteration of the while loop
PermuteIter ==
    /\ pc = "permute"
    /\ PermuteContinues(child_ratio)
    /\ \E m \in ChildOf(mirs[pidx]) : out' = Append(out, m)
    /\ attempts' = attempts + 1
    /\ retries' = 0
    /\ UNCHANGED << scoreVars, mirrorVars, restVars, pc, i, min_pop, child_ratio, mirs, perm_mirs, pidx, dropped >>

\* main.rs:219-221  inside an iteration, distinct_words drew the avoided
\* list again and calls itself
PermuteRetry ==
    /\ pc = "permute"
    /\ PermuteContinues(child_ratio)
    /\ retries' = (retries + 1) % (MaxRetry + 1)
    /\ UNCHANGED << scoreVars, mirrorVars, restVars, pc, i, min_pop, child_ratio, mirs, perm_mirs, pidx, out,
                    attempts, dropped >>

\* main.rs:135 and main.rs:53  return out; perm_mirs.append(&mut ...)
PermuteReturn ==
    /\ pc = "permute"
    /\ ~PermuteContinues(child_ratio)
    /\ perm_mirs' = perm_mirs \o out
    /\ out' = << >>
    /\ pidx' = pidx + 1
    /\ pc' = "reproduce"
    /\ UNCHANGED << scoreVars, mirrorVars, restVars, i, min_pop, child_ratio, mirs, attempts, retries, dropped >>

\* main.rs:60
AppendStepChildrenOnly ==
    /\ pc = "append"
    /\ mirs' = perm_mirs
    /\ perm_mirs' = << >>
    /\ pc' = "shuffle"
    /\ UNCHANGED << scoreVars, mirrorVars, restVars, i, min_pop, child_ratio, pidx, out, attempts, retries,
                    dropped >>
AppendStep ==
    /\ pc = "append"
    /\ mirs' = mirs \o perm_mirs
    /\ perm_mirs' = << >>
    /\ pc' = "shuffle"
    /\ UNCHANGED << scoreVars, mirrorVars, restVars, i, min_pop, child_ratio, pidx, out, attempts, retries,
                    dropped >>

\* main.rs:61-62  shuffle, then the next iteration or the end of main
ShuffleStep ==
    /\ pc = "shuffle"
    /\ mirs' \in Shuffles(mirs)
    /\ i' = i + 1
    /\ pc' = IF LoopContinues(i + 1) THEN "sort" ELSE "done"
    /\ UNCHANGED << scoreVars, mirrorVars, restVars, min_pop, child_ratio, perm_mirs, pidx, out, attempts,
                    retries, dropped >>

LoopNext ==
    \/ SortStep
    \/ Report
    \/ TruncateStep
    \/ ForMir
    \/ PermuteIter
    \/ PermuteRetry
    \/ PermuteReturn
    \/ AppendStep
    \/ ShuffleStep

SpecLoop == LoopInit /\ [][LoopNext]_vars

\* The steps of main run whenever they can; the random draw of
\* distinct_words does not return the avoided list for ever, so an iteration
\* of permute_mirror_unique comes to its push (main.rs:132).
SpecLoopFair ==
    /\ SpecLoop
    /\ WF_vars(LoopNext)
    /\ WF_vars(PermuteIter)

\* ---------------------------------------------- claims about the loop -----
ScoreOf(m) == score(m.y)

\* C6: after the selection step (sort descending, truncate) the population
\* size is min(min_pop, size before truncation) and every retained individual
\* scores at least as high as every individual dropped in that step.
C6_SelectionKeepsBest ==
    pc \in {"reproduce", "permute", "append"} =>
        /\ Len(mirs) = Min(min_pop, Len(mirs) + Len(dropped))
        /\ \A r \in 1..Len(mirs) : \A d \in 1..Len(dropped) :
                ScoreOf(mirs[r]) >= ScoreOf(dropped[d])

C6_Witness ==
    /\ pc = "reproduce"
    /\ min_pop >= 1
    /\ Len(mirs) = min_pop
    /\ Len(dropped) >= 1
    /\ \E d \in 1..Len(dropped) : ScoreOf(mirs[Len(mirs)]) > ScoreOf(dropped[d])

SortedDescending(s) ==
    \A a \in 1..Len(s) : \A b \in 1..Len(s) :
        a < b => ScoreOf(s[a]) >= ScoreOf(s[b])

\* C8 (as claimed): the children of a generation are scored and truncated in
\* that same generation, so the loop's terminal state is a population sorted
\* by descending score of at most min_pop individuals.
C8_TerminalStateSortedElite ==
    pc = "done" => (Len(mirs) <= min_pop /\ SortedDescending(mirs))

\* C9: the loop terminates, and it does so after exactly the requested number
\* of generations: i advances by one at the end of an iteration only, and the
\* terminal state is reached with i = Generations, whatever the scores, the
\* population and the reproduction calls.
C9_RunsAllGenerations ==
    /\ <>(pc = "done")
    /\ [](pc = "done" => i = Generations)
    /\ [][i' = i \/ (pc = "shuffle" /\ i' = i + 1)]_vars

C9_Witness ==
    /\ pc = "done"
    /\ i = Generations
    /\ Len(mirs) >= 2
    /\ \E a \in 1..Len(mirs) : \E b \in 1..Len(mirs) :
            ScoreOf(mirs[a]) # ScoreOf(mirs[b])

\* --------------------------------------------------- mirror.rs: atoms -----
\* mirror.rs:46-51  MirrorAtom
MirrorWord(w) == [t |-> "Word", w |-> w, tags |-> << >>]
MirrorUPOS(tags) == [t |-> "UPOS", w |-> << >>, tags |-> tags]
MirrorWhitespace == [t |-> "Whitespace", w |-> << >>, tags |-> << >>]

\* mirror.rs:110  UPOS::iter()
UPOSTags == 1..NumUPOS

\* mirror.rs:115  String::from("the")
TheWord == << "t", "h", "e" >>

\* Vec::remove(i) and Vec::insert(i, x), with 1-based positions
RemoveAt(s, k) == SubSeq(s, 1, k - 1) \o SubSeq(s, k + 1, Len(s))
InsertAt(s, k, x) == SubSeq(s, 1, k - 1) \o << x >> \o SubSeq(s, k, Len(s))

\* the sequences of n distinct elements of S
InjectiveSeqs(S, n) ==
    { q \in [1..n -> S] : \A a \in 1..n : \A b \in 1..n : a # b => q[a] # q[b] }

\* rand's random_range(lo..hi) and random_range(lo..=hi): the values one
\* draw can return; a draw from an empty range panics
RandomRange(lo, hi) == lo..(hi - 1)
RandomRangeInclusive(lo, hi) == lo..hi

\* mirror.rs:112  the lengths all_upos.truncate(rng.random_range(0..len)) keeps
TruncateLengths == RandomRange(0, NumUPOS)

\* mirror.rs:108-119  create_random_step: a shuffled enumeration cut to a
\* random length, the word "the", or whitespace
CreateRandomStep ==
    { MirrorUPOS(q) :
        q \in UNION { InjectiveSeqs(UPOSTags, n) : n \in TruncateLengths } }
    \cup { MirrorWord(TheWord), MirrorWhitespace }

\* mirror.rs:89  `!uposset.is_empty()` of `!uposset.is_empty() && coin`
RemovesTagAlways(tags) == TRUE
RemovesTag(tags) == tags # << >>

\* mirror.rs:93  the tags UPOS::iter().nth(rng.random_range(0..16)) can be:
\* the range is the size of the enumeration
PushedTags == { k + 1 : k \in RandomRange(0, NumUPOS) } \cap UPOSTags

\* mirror.rs:97  `!w.is_empty()` of `coin && !w.is_empty()`
TruncatesWord(w) == w # << >>

\* mirror.rs:99  take = rng.random_range(1..=chars.len())
TakeLengthsFromZero(w) == RandomRangeInclusive(0, Len(w))
TakeLengths(w) == RandomRangeInclusive(1, Len(w))

\* mirror.rs:86-106  mutate_step: the atoms one call can leave in place of atom
MutateStep(atom) ==
    IF atom.t = "UPOS" THEN
        LET afterRemove ==
                {atom.tags} \cup
                (IF RemovesTag(atom.tags)
                 THEN { RemoveAt(atom.tags, k + 1) :
                            k \in RandomRange(0, Len(atom.tags)) }
                 ELSE {})
            afterPush ==
                afterRemove \cup
                { Append(q[1], q[2]) : q \in afterRemove \X PushedTags }
        IN  { MirrorUPOS(ts) : ts \in afterPush }
    ELSE IF atom.t = "Word" THEN
        {atom} \cup
        (IF TruncatesWord(atom.w)
         THEN { MirrorWord(SubSeq(atom.w, 1, take)) : take \in TakeLengths(atom.w) }
         ELSE {})
    ELSE {atom}

\* mirror.rs:86-106  mutate_step panics: a draw from an empty range
\* (mirror.rs:90, 99) or the unwrap of a tag the enumeration does not have
\* (mirror.rs:93)
MutateStepPanics(atom) ==
    IF atom.t = "UPOS" THEN
        \/ RemovesTag(atom.tags) /\ RandomRange(0, Len(atom.tags)) = {}
        \/ \E k \in RandomRange(0, NumUPOS) : k + 1 \notin UPOSTags
    ELSE IF atom.t = "Word" THEN
        TruncatesWord(atom.w) /\ TakeLengths(atom.w) = {}
    ELSE FALSE

\* mirror.rs:71  `!self.seq.is_empty()` of `!self.seq.is_empty() && coin`
TweaksStep(seq) == seq # << >>

\* mirror.rs:80  `!self.seq.is_empty()` of `!self.seq.is_empty() && coin`
RemovesStep(seq) == seq # << >>

\* mirror.rs:71-74  the first branch: mutate_step on a random atom
LayerTweaked(seq) ==
    IF TweaksStep(seq)
    THEN UNION { { [seq EXCEPT ![k + 1] = a] : a \in MutateStep(seq[k + 1]) } :
                    k \in RandomRange(0, Len(seq)) }
    ELSE {}

\* mirror.rs:75-78  the else branch: insert a random atom at a random place
LayerInserted(seq) ==
    { InsertAt(seq, q[1] + 1, q[2]) :
        q \in RandomRangeInclusive(0, Len(seq)) \X CreateRandomStep }

\* mirror.rs:80-83  the trailing removal, taken or not
LayerRemovedAll(s1) == IF RemovesStep(s1) THEN { << >> } ELSE {}
LayerRemoved(s1) ==
    IF RemovesStep(s1)
    THEN { RemoveAt(s1, k + 1) : k \in RandomRange(0, Len(s1)) }
    ELSE {}

\* mirror.rs:70-84  MirrorLayer::mutate: the sequences one call can leave
LayerMutate(seq) ==
    LET first == LayerTweaked(seq) \cup LayerInserted(seq)
    IN  first \cup UNION { LayerRemoved(s1) : s1 \in first }

\* mirror.rs:108-119  create_random_step panics on an empty truncate range
CreateRandomStepPanics == TruncateLengths = {}

\* mirror.rs:70-84  MirrorLayer::mutate panics: an empty range (mirror.rs:72,
\* 76, 81), a panic of mutate_step or of create_random_step
LayerMutatePanics(seq) ==
    \/ /\ TweaksStep(seq)
       /\ \/ RandomRange(0, Len(seq)) = {}
          \/ \E k \in RandomRange(0, Len(seq)) : MutateStepPanics(seq[k + 1])
    \/ RandomRangeInclusive(0, Len(seq)) = {}
    \/ CreateRandomStepPanics
    \/ \E s1 \in LayerTweaked(seq) \cup LayerInserted(seq) :
            RemovesStep(s1) /\ RandomRange(0, Len(s1)) = {}

\* mirror.rs:121-128  create_random_layer: 1 to 3 atoms, within MaxSeqLen
RandomLayerLengths == 1..Min(3, MaxSeqLen)
CreateRandomLayer ==
    UNION { [1..n -> CreateRandomStep] : n \in RandomLayerLengths }

\* mirror.rs:121-128  create_random_layer panics
CreateRandomLayerPanics == RandomLayerLengths = {} \/ CreateRandomStepPanics

\* --------------------------------------------------- mirror.rs: trees -----
\* mirror.rs:14-19  MirrorNode
Leaf(seq) == [kind |-> "Leaf", seq |-> seq, children |-> << >>]
And(cs) == [kind |-> "And", seq |-> << >>, children |-> cs]
Or(cs) == [kind |-> "Or", seq |-> << >>, children |-> cs]
Node(kind, cs) == [kind |-> kind, seq |-> << >>, children |-> cs]

\* mirror.rs:166  MirrorNode::Leaf(MirrorLayer::create_random_layer(rng))
RandomLeaves == { Leaf(l) : l \in CreateRandomLayer }

\* mirror.rs:179-183  And <-> Or
Flipped(kind) == IF kind = "And" THEN "Or" ELSE "And"

RECURSIVE NodeCount(_)
NodeCount(n) ==
    IF n.kind = "Leaf" THEN 1
    ELSE LET cnt[k \in 0..Len(n.children)] ==
                IF k = 0 THEN 1 ELSE cnt[k - 1] + NodeCount(n.children[k])
         IN  cnt[Len(n.children)]

\* every atom of the tree
RECURSIVE AtomsOf(_)
AtomsOf(n) ==
    IF n.kind = "Leaf" THEN { n.seq[k] : k \in 1..Len(n.seq) }
    ELSE UNION { AtomsOf(n.children[k]) : k \in 1..Len(n.children) }

\* every leaf of the tree
RECURSIVE LeavesOf(_)
LeavesOf(n) ==
    IF n.kind = "Leaf" THEN {n}
    ELSE UNION { LeavesOf(n.children[k]) : k \in 1..Len(n.children) }

\* the trees the model follows
WithinBounds(n) ==
    /\ NodeCount(n) <= MaxNodes
    /\ \A l \in LeavesOf(n) : Len(l.seq) <= MaxSeqLen
    /\ \A a \in AtomsOf(n) : Len(a.tags) <= MaxTags

\* mirror.rs:166-171  promote: the leaf and a fresh leaf under a new And / Or
PromoteFreshOnly(seq, fresh) ==
    { Node(q[1], << q[2] >>) : q \in {"And", "Or"} \X fresh }
Promote(seq, fresh) ==
    { Node(q[1], << Leaf(seq), q[2] >>) : q \in {"And", "Or"} \X fresh }

\* mirror.rs:189  `len >= 2` of `len >= 2 && coin`
Reorders(len) == len >= 2

\* mirror.rs:197  `len > 1` of `len > 1 && coin`
RemovesChildFromOne(len) == len >= 1
RemovesChild(len) == len > 1

\* mirror.rs:200  `!children.is_empty()`
RecursesInto(c) == c # << >>

\* mirror.rs:207  `children.len() == 1` of `children.len() == 1 && coin`
Collapses(c) == Len(c) = 1

\* mirror.rs:211  `children.len() >= 2` of `children.len() >= 2 && coin`
WrapsPair(c) == Len(c) >= 2

\* mirror.rs:213  idx = rng.random_range(0..children.len() - 1)
WrapIndexes(c) == RandomRange(0, Len(c) - 1)

\* mirror.rs:188-204  `children` after the reorder and after one of insert,
\* remove and recurse (or none of them), for a node that did not flip
RECURSIVE NodeMutate(_)
RECURSIVE EditedChildren(_)
EditedChildren(n) ==
    LET len == Len(n.children)
        \* mirror.rs:189-191
        reordered ==
            IF Reorders(len) THEN {n.children} \cup Shuffles(n.children)
            ELSE {n.children}
        \* mirror.rs:194-196
        InsertInto(c) ==
            { InsertAt(c, q[1] + 1, q[2]) :
                q \in RandomRangeInclusive(0, len) \X RandomLeaves }
        \* mirror.rs:197-199
        RemoveFrom(c) ==
            IF RemovesChild(len)
            THEN { RemoveAt(c, k + 1) : k \in RandomRange(0, len) }
            ELSE {}
        \* mirror.rs:200-204
        RecurseInto(c) ==
            IF RecursesInto(c)
            THEN UNION { { [c EXCEPT ![k + 1] = m] : m \in NodeMutate(c[k + 1]) } :
                            k \in RandomRange(0, Len(c)) }
            ELSE {c}
    IN  UNION { InsertInto(c) \cup RemoveFrom(c) \cup RecurseInto(c) :
                    c \in reordered }

\* mirror.rs:207-210  replace the node by its only child
Collapsed(c) == IF Collapses(c) THEN { c[1] } ELSE {}

\* mirror.rs:211-221  wrap two adjacent children into a new And / Or
Wrapped(kind, c) ==
    IF WrapsPair(c)
    THEN { Node(kind,
                InsertAt(RemoveAt(RemoveAt(c, q[1] + 1), q[1] + 1), q[1] + 1,
                         Node(q[2], << c[q[1] + 1], c[q[1] + 2] >>))) :
            q \in WrapIndexes(c) \X {"And", "Or"} }
    ELSE {}

\* mirror.rs:159-225  MirrorNode::mutate: the nodes one call can leave in
\* place of n
NodeMutate(n) ==
    IF n.kind = "Leaf" THEN
        \* mirror.rs:163-164  tweak the leaf
        { Leaf(s) : s \in LayerMutate(n.seq) }
        \* mirror.rs:166-171  promote to a two-child And / Or
        \cup Promote(n.seq, RandomLeaves)
    ELSE
        \* mirror.rs:178-186  flip the operator and return
        { Node(Flipped(n.kind), n.children) }
        \cup UNION { { Node(n.kind, c) } \cup Collapsed(c) \cup Wrapped(n.kind, c) :
                        c \in EditedChildren(n) }

\* mirror.rs:159-225  MirrorNode::mutate panics: an empty range (mirror.rs:195,
\* 198, 202, 213), an index past the end (mirror.rs:199, 203, 209, 214, 215),
\* the unreachable branch (mirror.rs:182), or a panic of a callee
RECURSIVE NodeMutatePanics(_)
NodeMutatePanics(n) ==
    IF n.kind = "Leaf" THEN
        LayerMutatePanics(n.seq) \/ CreateRandomLayerPanics
    ELSE
        LET len == Len(n.children)
            reordered ==
                IF Reorders(len) THEN {n.children} \cup Shuffles(n.children)
                ELSE {n.children}
        IN  \/ n.kind \notin {"And", "Or"}
            \/ RandomRangeInclusive(0, len) = {}
            \/ CreateRandomLayerPanics
            \/ \E c \in reordered :
                \/ /\ RemovesChild(len)
                   /\ \/ RandomRange(0, len) = {}
                      \/ \E k \in RandomRange(0, len) : k + 1 > Len(c)
                \/ /\ RecursesInto(c)
                   /\ \/ RandomRange(0, Len(c)) = {}
                      \/ \E k \in RandomRange(0, Len(c)) :
                            NodeMutatePanics(c[k + 1])
            \/ \E c \in EditedChildren(n) :
                \/ Collapses(c) /\ Len(c) < 1
                \/ /\ WrapsPair(c)
                   /\ \/ WrapIndexes(c) = {}
                      \/ \E k \in WrapIndexes(c) : k + 2 > Len(c)

GrowWithSiblingFirst(root, fresh) ==
    { Node(q[1], << q[2], root >>) : q \in {"And", "Or"} \X fresh }
\* mirror.rs:253-266  grow: the old root and a fresh leaf under a new And / Or
\* mirror.rs:254-264  And/Or(vec![old, sibling]) for a sibling of `fresh`;
\* the leaf mem::replace leaves in self.root (mirror.rs:256-259) is
\* overwritten
GrowWith(root, fresh) ==
    { Node(q[1], << root, q[2] >>) : q \in {"And", "Or"} \X fresh }
Grown(root) == GrowWith(root, RandomLeaves)

\* mirror.rs:251-274  Mirror::mutate: the roots one call can leave
MirrorMutateRaw(root) ==
    \* mirror.rs:253-266  grow
    Grown(root)
    \* mirror.rs:268-271  reset
    \cup RandomLeaves
    \* mirror.rs:273
    \cup NodeMutate(root)

\* mirror.rs:251-274  Mirror::mutate panics
MirrorMutatePanics(root) == CreateRandomLayerPanics \/ NodeMutatePanics(root)

MirrorMutate(root) == { r \in MirrorMutateRaw(root) : WithinBounds(r) }

\* ------------------------- mirror.rs: create_children_with_mutations -----
\* the parents create_children_with_mutations is called on: the default
\* root (mirror.rs:21-25), a one-word leaf, and an And of leaves
\* (mirror.rs:33-39)
ParentTrees ==
    { Leaf(<< >>),
      Leaf(<< MirrorWord(TheWord) >>),
      And(<< Leaf(<< MirrorUPOS(<< 1 >>) >>), Leaf(<< MirrorWhitespace >>) >>) }

\* mirror.rs:242  rng.gen_range(1..=max_mutations)
MutationCountsFromZero(max) == 0..max
MutationCounts(max) == 1..max

MirrorInit ==
    /\ ScoreIdle
    /\ LoopIdle
    /\ RestIdle
    /\ m_pc = "loop"
    /\ parent \in ParentTrees
    /\ child_count \in 0..MaxChildCount
    /\ max_mutations \in 0..MaxMutations
    /\ children = << >>
    /\ child = << >>
    /\ mutation_count = 0
    /\ applied = 0
    /\ muts = << >>

\* mirror.rs:240-242  the next iteration of `for _ in 0..child_count`: clone
\* the parent and draw mutation_count; an empty range panics
CloneParent ==
    /\ m_pc = "loop"
    /\ Len(children) < child_count
    /\ child' = parent
    /\ applied' = 0
    /\ IF MutationCounts(max_mutations) = {}
       THEN m_pc' = "panic" /\ UNCHANGED mutation_count
       ELSE m_pc' = "mutate" /\ mutation_count' \in MutationCounts(max_mutations)
    /\ UNCHANGED << scoreVars, loopVars, restVars, parent, child_count, max_mutations,
                    children, muts >>

\* mirror.rs:243-245  one iteration of `for _ in 0..mutation_count`
MutateChild ==
    /\ m_pc = "mutate"
    /\ applied < mutation_count
    /\ child' \in MirrorMutate(child)
    /\ applied' = applied + 1
    /\ UNCHANGED << scoreVars, loopVars, restVars, m_pc, parent, child_count,
                    max_mutations, children, mutation_count, muts >>

\* mirror.rs:246
PushChild ==
    /\ m_pc = "mutate"
    /\ applied >= mutation_count
    /\ children' = Append(children, child)
    /\ muts' = Append(muts, applied)
    /\ m_pc' = "loop"
    /\ UNCHANGED << scoreVars, loopVars, restVars, parent, child_count, max_mutations,
                    child, mutation_count, applied >>

\* mirror.rs:248
ReturnChildren ==
    /\ m_pc = "loop"
    /\ Len(children) >= child_count
    /\ m_pc' = "done"
    /\ UNCHANGED << scoreVars, loopVars, restVars, parent, child_count, max_mutations,
                    children, child, mutation_count, applied, muts >>

MirrorNext == CloneParent \/ MutateChild \/ PushChild \/ ReturnChildren

SpecMirror == MirrorInit /\ [][MirrorNext]_vars

\* ------------------------------------- claims about the mirror trees -----
TagSetsNonEmpty(n) == \A a \in AtomsOf(n) : a.t = "UPOS" => a.tags # << >>

\* C1 (as claimed): every TagSet atom (MirrorAtom::UPOS) holds a non-empty
\* tag list, in every atom random generation returns and after any sequence
\* of mutations of a tree whose tag lists were non-empty.
C1_TagSetsNeverEmpty ==
    /\ m_pc = "mutate" => TagSetsNonEmpty(child)
    /\ \A j \in 1..Len(children) : TagSetsNonEmpty(children[j])

\* C10 (as claimed): reproduction returns exactly child_count children for
\* every parent and every child_count >= 0, each with 1 <= k <= max_mutations
\* mutations applied.
C10_AlwaysReturnsCount ==
    /\ m_pc # "panic"
    /\ m_pc = "done" =>
        /\ Len(children) = child_count
        /\ \A j \in 1..Len(muts) : muts[j] \in 1..max_mutations

\* C10 (amended): for max_mutations >= 1 reproduction returns exactly
\* child_count children, each a clone of the parent to which k mutations were
\* applied with 1 <= k <= max_mutations, and the parent and the children
\* already pushed are unchanged by the mutations applied to one child; the
\* call panics exactly when max_mutations = 0 and child_count >= 1.
C10_ChildrenOfParent ==
    /\ [](m_pc = "panic" => (max_mutations = 0 /\ child_count >= 1))
    /\ [](m_pc = "done" =>
            /\ Len(children) = child_count
            /\ (child_count = 0 \/ max_mutations >= 1))
    /\ [](Len(muts) = Len(children)
            /\ \A j \in 1..Len(muts) : muts[j] \in 1..max_mutations)
    /\ [](m_pc = "mutate" /\ applied = 0 => child = parent)
    /\ [][/\ parent' = parent
          /\ Len(children') >= Len(children)
          /\ \A j \in 1..Len(children) : children'[j] = children[j]
          /\ Len(children') > Len(children) =>
                /\ children' = Append(children, child)
                /\ applied = mutation_count
                /\ muts'[Len(muts')] = mutation_count]_vars

C10_Witness ==
    /\ m_pc = "done"
    /\ max_mutations = 2
    /\ Len(children) = 2
    /\ muts = << 1, 2 >>
    /\ children[1] # parent
    /\ children[2] # parent
    /\ children[1] # children[2]

\* ------------------------------------------- SpecNode: Mirror::mutate -----
\* Mirror::mutate applied again and again to one tree.

\* the trees SpecNode starts from: the parents of SpecMirror, And / Or nodes
\* with no child (mirror.rs:33-39 on an empty Vec) and with one child
SeedTrees ==
    ParentTrees
    \cup { And(<< >>), Or(<< >>), Or(<< Leaf(<< >>) >>),
           And(<< Leaf(<< MirrorWord(TheWord) >>) >>) }

\* the number of atoms of the leaves of the tree
RECURSIVE AtomCount(_)
AtomCount(n) ==
    IF n.kind = "Leaf" THEN Len(n.seq)
    ELSE LET cnt[k \in 0..Len(n.children)] ==
                IF k = 0 THEN 0 ELSE cnt[k - 1] + AtomCount(n.children[k])
         IN  cnt[Len(n.children)]

\* the trees SpecNode follows
TreeWithinBounds(n) ==
    /\ NodeCount(n) <= TreeMaxNodes
    /\ AtomCount(n) <= TreeMaxAtoms
    /\ \A l \in LeavesOf(n) : Len(l.seq) <= MaxSeqLen
    /\ \A a \in AtomsOf(n) : Len(a.tags) <= MaxTags

\* mirror.rs:46-51  a value of type MirrorAtom
IsAtom(a) ==
    /\ a.t \in {"Word", "UPOS", "Whitespace"}
    /\ a.t # "Word" => a.w = << >>
    /\ a.t # "UPOS" => a.tags = << >>
    /\ \A k \in 1..Len(a.tags) : a.tags[k] \in UPOSTags

\* mirror.rs:14-19  a value of type MirrorNode: a Leaf holding a sequence of
\* atoms, or an And / Or holding any number of nodes
RECURSIVE WellFormed(_)
WellFormed(n) ==
    /\ n.kind \in {"Leaf", "And", "Or"}
    /\ IF n.kind = "Leaf"
       THEN n.children = << >> /\ \A k \in 1..Len(n.seq) : IsAtom(n.seq[k])
       ELSE n.seq = << >> /\ \A k \in 1..Len(n.children) : WellFormed(n.children[k])

NodeInit ==
    /\ ScoreIdle /\ LoopIdle /\ MirrorIdle
    /\ LeafIdle /\ ScanIdle /\ ParIdle /\ FnIdle
    /\ n_pc = "run"
    /\ n_root \in SeedTrees
    /\ n_op = "none"

\* mirror.rs:253-266  Mirror::mutate taking the grow branch
MutateGrow ==
    /\ n_pc = "run"
    /\ IF CreateRandomLayerPanics
       THEN n_pc' = "panic" /\ UNCHANGED n_root
       ELSE /\ \E r \in Grown(n_root) : TreeWithinBounds(r) /\ n_root' = r
            /\ UNCHANGED n_pc
    /\ n_op' = "grow"
    /\ UNCHANGED << scoreVars, loopVars, mirrorVars, fnVars, leafVars, scanVars, parVars >>

\* mirror.rs:268-271  Mirror::mutate taking the reset branch
MutateReset ==
    /\ n_pc = "run"
    /\ IF CreateRandomLayerPanics
       THEN n_pc' = "panic" /\ UNCHANGED n_root
       ELSE /\ \E r \in RandomLeaves : TreeWithinBounds(r) /\ n_root' = r
            /\ UNCHANGED n_pc
    /\ n_op' = "reset"
    /\ UNCHANGED << scoreVars, loopVars, mirrorVars, fnVars, leafVars, scanVars, parVars >>

\* mirror.rs:273  Mirror::mutate calling self.root.mutate(rng)
MutateRecurse ==
    /\ n_pc = "run"
    /\ \E panics \in { b \in BOOLEAN : b => NodeMutatePanics(n_root) } :
        IF panics
        THEN n_pc' = "panic" /\ UNCHANGED n_root
        ELSE /\ \E r \in NodeMutate(n_root) : TreeWithinBounds(r) /\ n_root' = r
             /\ UNCHANGED n_pc
    /\ n_op' = "recurse"
    /\ UNCHANGED << scoreVars, loopVars, mirrorVars, fnVars, leafVars, scanVars, parVars >>

NodeNext == MutateGrow \/ MutateReset \/ MutateRecurse

SpecNode == NodeInit /\ [][NodeNext]_vars

\* C11: mutation closure: on every well-formed tree, And / Or nodes with no
\* child or one child and leaves with an empty sequence included, no outcome
\* of Mirror::mutate, MirrorNode::mutate or MirrorLayer::mutate reaches a
\* panic, and the tree a call leaves is well-formed.
C11_MutationClosure ==
    /\ n_pc # "panic"
    /\ n_pc = "run" =>
        /\ WellFormed(n_root)
        /\ ~MirrorMutatePanics(n_root)

C11_Witness ==
    /\ n_pc = "run"
    /\ n_op = "recurse"
    /\ n_root.kind \in {"And", "Or"}
    /\ Len(n_root.children) = 1
    /\ n_root.children[1].kind \in {"And", "Or"}
    /\ \E l \in LeavesOf(n_root) : l.seq = << >>
    /\ \E a \in AtomsOf(n_root) : a.t = "UPOS" /\ a.tags = << >>

\* --------------------------------- SpecScan: the document scans of score ---
\* score, one action per call of next() on the iterator that
\* iter_matches_in_doc returns and one per `if` that judges a document.

ScanInit ==
    /\ ScoreIdle /\ LoopIdle /\ MirrorIdle
    /\ LeafIdle /\ NodeIdle /\ ParIdle /\ FnIdle
    /\ sc_cand \in [seq : ScoreSeqs, y : Yields]
    /\ sc_pc = "problem_scan"
    /\ sc_doc = 1
    /\ sc_seen = 0
    /\ sc_requests = 0
    /\ sc_correct = 0

\* main.rs:378  matches.extend(..): Vec::extend calls next() until it
\* returns None
ProblemNext ==
    /\ sc_pc = "problem_scan"
    /\ sc_requests' = sc_requests + 1
    /\ IF sc_seen < sc_cand.y.pm[sc_doc]
       THEN sc_seen' = sc_seen + 1 /\ UNCHANGED sc_pc
       ELSE sc_pc' = "problem_judge" /\ UNCHANGED sc_seen
    /\ UNCHANGED << scoreVars, loopVars, mirrorVars, fnVars, leafVars, nodeVars, parVars,
                    sc_cand, sc_doc, sc_correct >>

\* main.rs:380-382, and main.rs:374-377 for the next document
ProblemJudge ==
    /\ sc_pc = "problem_judge"
    /\ sc_correct' = sc_correct + ProblemCorrect(sc_seen)
    /\ sc_seen' = 0
    /\ sc_requests' = 0
    /\ IF sc_doc < NumProblems
       THEN sc_doc' = sc_doc + 1 /\ sc_pc' = "problem_scan"
       ELSE sc_doc' = 1 /\ sc_pc' = "clean_scan"
    /\ UNCHANGED << scoreVars, loopVars, mirrorVars, fnVars, leafVars, nodeVars, parVars,
                    sc_cand >>

\* main.rs:388  ..count(): Iterator::count calls next() until it returns None
CleanNext ==
    /\ sc_pc = "clean_scan"
    /\ sc_requests' = sc_requests + 1
    /\ IF sc_seen < sc_cand.y.cm[sc_doc]
       THEN sc_seen' = sc_seen + 1 /\ UNCHANGED sc_pc
       ELSE sc_pc' = "clean_judge" /\ UNCHANGED sc_seen
    /\ UNCHANGED << scoreVars, loopVars, mirrorVars, fnVars, leafVars, nodeVars, parVars,
                    sc_cand, sc_doc, sc_correct >>

\* main.rs:388-390, and main.rs:385-386 for the next document, main.rs:393
\* after the last
CleanJudge ==
    /\ sc_pc = "clean_judge"
    /\ sc_correct' = sc_correct + CleanCorrect(sc_seen)
    /\ sc_seen' = 0
    /\ sc_requests' = 0
    /\ IF sc_doc < NumClean
       THEN sc_doc' = sc_doc + 1 /\ sc_pc' = "clean_scan"
       ELSE sc_doc' = 1 /\ sc_pc' = "done"
    /\ UNCHANGED << scoreVars, loopVars, mirrorVars, fnVars, leafVars, nodeVars, parVars,
                    sc_cand >>

ScanNext == ProblemNext \/ ProblemJudge \/ CleanNext \/ CleanJudge

SpecScan == ScanInit /\ [][ScanNext]_vars

\* C12 (as claimed): scoring stops scanning a document early: on a problem
\* document no match is requested once a second one has been observed, on a
\* clean document none once a first one has been observed.
C12_EarlyExit ==
    [][sc_requests' = sc_requests + 1 =>
            /\ sc_pc = "problem_scan" => sc_seen < 2
            /\ sc_pc = "clean_scan" => sc_seen < 1]_vars

\* ---------------------- SpecPar: the parallel key phase of the sort -----
\* mirs.par_sort_by_cached_key(|s| usize::MAX - score(&s.to_seq_expr())):
\* the key closure runs once per element, the calls in any interleaving, each
\* call of score with its own local `correct`; when every key is cached the
\* slice is permuted.  The calling thread is inside the call all along.

\* main.rs:370  `let mut correct = 0` is a local of the call: the call for
\* index j writes the accumulator j
AccumulatorShared(j) == 1
Accumulator(j) == j

\* the stable ascending order of the cached keys: p[k] is the index whose
\* element comes k-th
StableOrder(keys) ==
    CHOOSE p \in Permutations(1..Len(keys)) :
        \A a \in 1..Len(keys) : \A b \in 1..Len(keys) :
            a < b => \/ keys[p[a]] < keys[p[b]]
                     \/ keys[p[a]] = keys[p[b]] /\ p[a] < p[b]

ParInit ==
    /\ ScoreIdle /\ LoopIdle /\ MirrorIdle
    /\ LeafIdle /\ NodeIdle /\ ScanIdle /\ FnIdle
    /\ p_pc = "keys"
    /\ p_mirs \in UNION { [1..n -> Individuals] : n \in 1..MaxSlice }
    /\ p_start = p_mirs
    /\ p_keys = [j \in 1..Len(p_mirs) |-> -1]
    /\ p_stage = [j \in 1..Len(p_mirs) |-> "start"]
    /\ p_correct = [j \in 1..Len(p_mirs) |-> 0]

\* main.rs:370-383  the call of score for element j: correct = 0 and the loop
\* over problems()
WorkerProblems ==
    /\ p_pc = "keys"
    /\ \E j \in 1..Len(p_mirs) :
        /\ p_stage[j] = "start"
        /\ p_correct' = [p_correct EXCEPT
                            ![Accumulator(j)] = ScoreProblems(p_mirs[j].y.pm)]
        /\ p_stage' = [p_stage EXCEPT ![j] = "problems"]
    /\ UNCHANGED << scoreVars, loopVars, mirrorVars, fnVars, leafVars, nodeVars, scanVars,
                    p_pc, p_mirs, p_start, p_keys >>

\* main.rs:385-393 and main.rs:38  the loop over clean(), the return of
\* `correct`, and the key usize::MAX - score
WorkerClean ==
    /\ p_pc = "keys"
    /\ \E j \in 1..Len(p_mirs) :
        /\ p_stage[j] = "problems"
        /\ LET final == ScoreClean(p_correct[Accumulator(j)], p_mirs[j].y.cm)
           IN  /\ p_correct' = [p_correct EXCEPT ![Accumulator(j)] = final]
               /\ p_keys' = [p_keys EXCEPT ![j] = UsizeMax - final]
        /\ p_stage' = [p_stage EXCEPT ![j] = "done"]
    /\ UNCHANGED << scoreVars, loopVars, mirrorVars, fnVars, leafVars, nodeVars, scanVars,
                    p_pc, p_mirs, p_start >>

\* main.rs:38  every key is cached: the slice is put in the order of the keys
SortPermute ==
    /\ p_pc = "keys"
    /\ \A j \in 1..Len(p_mirs) : p_stage[j] = "done"
    /\ LET order == StableOrder(p_keys)
       IN  p_mirs' = [k \in 1..Len(p_mirs) |-> p_mirs[order[k]]]
    /\ p_pc' = "sorted"
    /\ UNCHANGED << scoreVars, loopVars, mirrorVars, fnVars, leafVars, nodeVars, scanVars,
                    p_start, p_keys, p_stage, p_correct >>

\* main.rs:48  back in main: mirs.truncate(args.min_pop)
TruncateSorted ==
    /\ p_pc = "sorted"
    /\ \E n \in 0..MaxMinPop : p_mirs' = Truncate(p_mirs, n)
    /\ p_pc' = "truncated"
    /\ UNCHANGED << scoreVars, loopVars, mirrorVars, fnVars, leafVars, nodeVars, scanVars,
                    p_start, p_keys, p_stage, p_correct >>

ParNext == WorkerProblems \/ WorkerClean \/ SortPermute \/ TruncateSorted

SpecPar == ParInit /\ [][ParNext]_vars

\* C13: while the parallel scoring phase is in progress the population list
\* is not modified, and the score assigned to every individual is the score
\* of that individual alone, the same under every interleaving of the workers.
C13_ScoresIndependentOfInterleaving ==
    /\ [](p_pc = "keys" => p_mirs = p_start)
    /\ [][p_pc = "keys" /\ p_pc' = "keys" => p_mirs' = p_mirs]_vars
    /\ [](\A j \in 1..Len(p_keys) :
            p_keys[j] # -1 => p_keys[j] = UsizeMax - score(p_start[j].y))
    /\ [](p_pc = "sorted" => p_mirs = SortByCachedKey(p_start))

C13_Witness ==
    /\ p_pc = "keys"
    /\ Len(p_mirs) = 2
    /\ p_stage[1] = "problems"
    /\ p_stage[2] = "done"
    /\ p_keys[2] = UsizeMax - score(p_start[2].y)
    /\ p_start[1].y.pm # p_start[2].y.pm
    /\ score(p_start[1].y) # score(p_start[2].y)

\* ------------------------- SpecLeaf: MirrorNode::mutate on a Leaf node -----
\* MirrorNode::mutate applied again and again to a node that is a Leaf, until
\* a call promotes it (mirror.rs:161-173).

\* mirror.rs:122  len = rng.random_range(1..=3)
LayerLengths == RandomRangeInclusive(1, 3)

\* mirror.rs:166  the fresh leaves of create_random_layer, of every length
\* the source draws
FreshLeaves ==
    { Leaf(l) : l \in UNION { [1..n -> CreateRandomStep] : n \in LayerLengths } }

\* the leaves SpecLeaf starts from: the default root (mirror.rs:21-25) and
\* fresh leaves of one atom
SeedLeaves ==
    { Leaf(<< >>) } \cup { Leaf(<< a >>) : a \in CreateRandomStep }

\* the sequences SpecLeaf follows
LeafWithinBounds(seq) ==
    /\ Len(seq) <= LeafMaxLen
    /\ \A k \in 1..Len(seq) : Len(seq[k].tags) <= LeafMaxTags

LeafInit ==
    /\ ScoreIdle /\ LoopIdle /\ MirrorIdle
    /\ NodeIdle /\ ScanIdle /\ ParIdle /\ FnIdle
    /\ lf_pc = "leaf"
    /\ lf_node \in SeedLeaves
    /\ lf_prev = lf_node
    /\ lf_branch = "none"
    /\ lf_removed = FALSE

\* mirror.rs:163-164 with mirror.rs:71-74 and 80-83: layer.mutate taking the
\* mutate_step branch, then the removal or not
LeafTweak ==
    /\ lf_pc = "leaf"
    /\ \E s1 \in LayerTweaked(lf_node.seq) :
        \E s2 \in {s1} \cup LayerRemoved(s1) :
            /\ LeafWithinBounds(s2)
            /\ lf_node' = Leaf(s2)
            /\ lf_removed' = (s2 # s1)
    /\ lf_prev' = lf_node
    /\ lf_branch' = "tweak"
    /\ UNCHANGED << scoreVars, loopVars, mirrorVars, fnVars, nodeVars, scanVars, parVars,
                    lf_pc >>

\* mirror.rs:163-164 with mirror.rs:75-78 and 80-83: layer.mutate taking the
\* insert branch, then the removal or not
LeafInsert ==
    /\ lf_pc = "leaf"
    /\ \E s1 \in LayerInserted(lf_node.seq) :
        \E s2 \in {s1} \cup LayerRemoved(s1) :
            /\ LeafWithinBounds(s2)
            /\ lf_node' = Leaf(s2)
            /\ lf_removed' = (s2 # s1)
    /\ lf_prev' = lf_node
    /\ lf_branch' = "insert"
    /\ UNCHANGED << scoreVars, loopVars, mirrorVars, fnVars, nodeVars, scanVars, parVars,
                    lf_pc >>

\* mirror.rs:165-172  promote the leaf
LeafPromote ==
    /\ lf_pc = "leaf"
    /\ lf_node' \in Promote(lf_node.seq, FreshLeaves)
    /\ lf_prev' = lf_node
    /\ lf_branch' = "promote"
    /\ lf_removed' = FALSE
    /\ lf_pc' = "promoted"
    /\ UNCHANGED << scoreVars, loopVars, mirrorVars, fnVars, nodeVars, scanVars, parVars >>

LeafNext == LeafTweak \/ LeafInsert \/ LeafPromote

SpecLeaf == LeafInit /\ [][LeafNext]_vars

\* C14: every Word atom holds a non-empty text: in the seeds, in every atom
\* random generation returns, and after any sequence of mutations (the
\* truncation keeps a prefix of at least one character).
C14_WordsNeverEmpty ==
    /\ \A a \in CreateRandomStep : a.t = "Word" => a.w # << >>
    /\ \A a \in AtomsOf(lf_node) : a.t = "Word" => a.w # << >>

C14_Witness ==
    /\ lf_pc = "leaf"
    /\ lf_branch = "tweak"
    /\ \E k \in 1..Len(lf_node.seq) :
        /\ k <= Len(lf_prev.seq)
        /\ lf_prev.seq[k] = MirrorWord(SubSeq(TheWord, 1, 2))
        /\ lf_node.seq[k] = MirrorWord(SubSeq(TheWord, 1, 1))

\* whether the list holds some element twice
HasDuplicate(q) ==
    \E a \in 1..Len(q) : \E b \in 1..Len(q) : a # b /\ q[a] = q[b]

\* C15 (as claimed): the tag list of every TagSet atom holds no category
\* twice after any sequence of mutations, so its length never exceeds the
\* cardinality of the enumeration.
C15_TagListsDuplicateFree ==
    \A a \in AtomsOf(lf_node) :
        a.t = "UPOS" => (~HasDuplicate(a.tags) /\ Len(a.tags) <= NumUPOS)

\* C18: when MirrorNode::mutate promotes a Leaf, the node becomes an And or
\* an Or with exactly two children: first the original leaf with its atom
\* sequence unchanged, second a freshly generated leaf of 1 to 3 atoms.
C18_PromoteKeepsLeafFirst ==
    lf_branch = "promote" =>
        /\ lf_prev.kind = "Leaf"
        /\ lf_node.kind \in {"And", "Or"}
        /\ Len(lf_node.children) = 2
        /\ lf_node.children[1] = Leaf(lf_prev.seq)
        /\ lf_node.children[2].kind = "Leaf"
        /\ Len(lf_node.children[2].seq) \in 1..3
        /\ \A k \in 1..Len(lf_node.children[2].seq) :
                lf_node.children[2].seq[k] \in CreateRandomStep

C18_Witness ==
    /\ lf_branch = "promote"
    /\ lf_node.kind = "Or"
    /\ Len(lf_prev.seq) = 2
    /\ lf_node.children[1] = lf_prev
    /\ Len(lf_node.children[2].seq) = 3
    /\ lf_node.children[2] # lf_node.children[1]

\* C19: one application of MirrorLayer::mutate changes the length of the
\* atom sequence by -1, 0 or +1 and never below zero; on an empty sequence it
\* takes the insert branch; a non-empty sequence shrinks to length zero only
\* from length one.
C19_LengthChangesByAtMostOne ==
    lf_branch \in {"tweak", "insert"} =>
        /\ Len(lf_node.seq) - Len(lf_prev.seq) \in {-1, 0, 1}
        /\ Len(lf_node.seq) >= 0
        /\ Len(lf_node.seq) - Len(lf_prev.seq) =
                (IF lf_branch = "insert" THEN 1 ELSE 0)
                - (IF lf_removed THEN 1 ELSE 0)
        /\ lf_prev.seq = << >> => lf_branch = "insert"
        /\ (lf_node.seq = << >> /\ lf_prev.seq # << >>) => Len(lf_prev.seq) = 1
        /\ Leaf(lf_node.seq) = lf_node
        /\ lf_node.seq \in LayerMutate(lf_prev.seq)

C19_Witness ==
    /\ lf_branch = "tweak"
    /\ lf_removed
    /\ Len(lf_prev.seq) = 1
    /\ lf_node.seq = << >>

\* ------------------------------------ more claims about score (SpecScore) ---
\* main.rs:44  problems().len() + clean().len(), reported next to the score
MaxPossibleScoreProblemsOnly == NumProblems
MaxPossibleScore == NumProblems + NumClean

\* C16: for every candidate 0 <= score <= the maximum reported alongside it
\* (number of problem documents plus number of clean documents), with
\* equality exactly when every problem document yields exactly one match and
\* every clean document yields none.
C16_ScoreWithinMaximum ==
    s_pc = "done" =>
        \A c \in 1..2 :
            /\ correct[c] = score(cands[c].y)
            /\ 0 <= correct[c]
            /\ correct[c] <= MaxPossibleScore
            /\ correct[c] = MaxPossibleScore <=>
                    /\ \A d \in ProblemDocs : cands[c].y.pm[d] = 1
                    /\ \A d \in CleanDocs : cands[c].y.cm[d] = 0

C16_Witness ==
    /\ s_pc = "done"
    /\ correct[1] = MaxPossibleScore
    /\ \A d \in ProblemDocs : cands[1].y.pm[d] = 1
    /\ \A d \in CleanDocs : cands[1].y.cm[d] = 0
    /\ correct[2] = 0
    /\ \E d \in ProblemDocs : cands[2].y.pm[d] = 2

\* ------------------------------------ more claims about trees (SpecNode) ---
\* every And / Or node of the tree has at least one child
RECURSIVE NoEmptyNode(_)
NoEmptyNode(n) ==
    n.kind = "Leaf"
    \/ /\ n.children # << >>
       /\ \A k \in 1..Len(n.children) : NoEmptyNode(n.children[k])

\* C17: mutation never leaves an And / Or node without children: if every
\* And / Or node of the tree has at least one child before a call of
\* Mirror::mutate (of MirrorNode::mutate on the root), every And / Or node has
\* at least one child after it, whatever the call draws.
C17_NodesKeepAChild ==
    /\ [](n_pc = "run" /\ NoEmptyNode(n_root) =>
            \A r \in MirrorMutateRaw(n_root) : NoEmptyNode(r))
    /\ [][NoEmptyNode(n_root) => NoEmptyNode(n_root')]_vars

C17_Witness ==
    /\ n_pc = "run"
    /\ n_op = "recurse"
    /\ NoEmptyNode(n_root)
    /\ n_root.kind \in {"And", "Or"}
    /\ Len(n_root.children) = 1
    /\ n_root.children[1].kind \in {"And", "Or"}
    /\ Len(n_root.children[1].children) = 2

\* ------------------------------------- more claims about the loop (SpecLoop) ---
\* the best score of a population, -1 for the empty one
BestScore(s) ==
    IF s = << >> THEN -1 ELSE SetMax({ ScoreOf(s[k]) : k \in 1..Len(s) })

\* C20: elitism: for min_pop >= 1 the best score in the population never
\* decreases, at any step of main and hence from one generation's ranking to
\* the next: the ranking puts a best individual first, the truncation keeps
\* it, reproduction and the shuffle leave the survivors in the population.
C20_BestScoreNeverDecreases ==
    /\ [][min_pop >= 1 => BestScore(mirs') >= BestScore(mirs)]_vars
    /\ [](pc \in {"report", "truncate"} /\ mirs # << >> =>
            ScoreOf(mirs[1]) = BestScore(mirs))

C20_Witness ==
    /\ pc = "report"
    /\ i = 1
    /\ min_pop = 1
    /\ Len(mirs) = 2
    /\ ScoreOf(mirs[1]) = MaxPossibleScore
    /\ ScoreOf(mirs[2]) = 0

\* ------------------------------ main.rs: permute_mirror_unique, one child --
\* SpecPermute follows one lineage of the population of main: a base
\* sequence, the child permute_mirror_unique builds from it, and the child
\* or the base as the base of a later call.

\* the words of word_pool, as build_word_pool returns them (main.rs:65-85)
PoolWords == << "too", "alpha", "brisk" >>
WordPool == SubSeq(PoolWords, 1, MaxPool)

\* Option<&Vec<String>>
None == << >>
Some(x) == << x >>

\* main.rs:206-224  the word lists distinct_words can return, each as the
\* set of its words (the list is sorted and deduplicated, main.rs:213-214):
\* choose_multiple takes min(k.max(1), pool.len()) positions of the pool, and
\* a draw equal to the deduplicated avoid list is drawn again
DistinctWordSets(pool, k, avoid) ==
    LET n == Min(Max(k, 1), Len(pool))
        draws == { { pool[j] : j \in idx } :
                     idx \in { x \in SUBSET DOMAIN pool : Cardinality(x) = n } }
    IN  IF avoid = None THEN draws ELSE draws \ { avoid[1] }

\* main.rs:219-221  no draw differs from the avoid list: the call recurses
\* without end
DistinctWordsDiverges(pool, k, avoid) == DistinctWordSets(pool, k, avoid) = {}

\* main.rs:198-204  random_upos_set
RandomUposSets ==
    { ts \in SUBSET UPOSTags : Cardinality(ts) \in RandomRange(1, NumUPOS) }

\* main.rs:184, 185, 192, 193  rng.gen_range(1..=3)
WordCounts == RandomRangeInclusive(1, 3)

\* main.rs:190-196  random_non_ws_atom
RandomNonWsAtoms ==
    { AllowedWords(ws) :
        ws \in UNION { DistinctWordSets(WordPool, k, None) : k \in WordCounts } }
    \cup { DisallowedWords(ws) :
        ws \in UNION { DistinctWordSets(WordPool, k, None) : k \in WordCounts } }
    \cup { UPOSAtom(ts) : ts \in RandomUposSets }

\* main.rs:174-180  flip_from_words
FlipFromWords(len) ==
    { DisallowedWords(ws) : ws \in DistinctWordSets(WordPool, Max(len, 1), None) }
    \cup { UPOSAtom(ts) : ts \in RandomUposSets }
    \cup { WhitespaceAtom }

\* main.rs:182-188  flip_from_upos
FlipFromUpos ==
    { AllowedWords(ws) :
        ws \in UNION { DistinctWordSets(WordPool, k, None) : k \in WordCounts } }
    \cup { DisallowedWords(ws) :
        ws \in UNION { DistinctWordSets(WordPool, k, None) : k \in WordCounts } }
    \cup { WhitespaceAtom }

\* main.rs:141-169  the atoms one round of apply_random_edit can leave in
\* the place of `atom`
EditedAtoms(atom) ==
    CASE atom.t = "AllowedWords" ->
            { AllowedWords(ws) :
                ws \in DistinctWordSets(WordPool, Cardinality(atom.words),
                                        Some(atom.words)) }
            \cup FlipFromWords(Cardinality(atom.words))
      [] atom.t = "DisallowedWords" ->
            { DisallowedWords(ws) :
                ws \in DistinctWordSets(WordPool, Cardinality(atom.words),
                                        Some(atom.words)) }
            \cup FlipFromWords(Cardinality(atom.words))
      [] atom.t = "UPOS" ->
            { UPOSAtom(ts) : ts \in RandomUposSets } \cup FlipFromUpos
      [] OTHER ->
            RandomNonWsAtoms \cup { UPOSAtom(ts) : ts \in RandomUposSets }

\* main.rs:144, 151  the call of distinct_words of the round does not return
EditDiverges(atom) ==
    /\ atom.t \in {"AllowedWords", "DisallowedWords"}
    /\ DistinctWordsDiverges(WordPool, Cardinality(atom.words), Some(atom.words))

EditedByRemoval(seq, k, atom) == RemoveAt(seq, k + 1)
\* main.rs:141-169  `*words = ...` and `m.seq[i] = ...`: the atom at index k
\* (0-based) is replaced in place
Edited(seq, k, atom) == [seq EXCEPT ![k + 1] = atom]

\* main.rs:140  rng.gen_range(0..m.seq.len()) panics on an empty range
EditIndexPanics(seq) == RandomRange(0, Len(seq)) = {}

PermuteInit ==
    /\ pm_pc = "clone"
    /\ pm_base = SeedSeq
    /\ pm_m = << >>
    /\ pm_round = 0
    /\ ScoreIdle /\ LoopIdle /\ MirrorIdle
    /\ LeafIdle /\ NodeIdle /\ ScanIdle /\ ParIdle
    /\ DistinctIdle /\ RootIdle

\* main.rs:119-121  let mut m = Mirror { seq: base.seq.clone() }
PermuteClone ==
    /\ pm_pc = "clone"
    /\ pm_m' = pm_base
    /\ pm_pc' = "branch"
    /\ UNCHANGED << scoreVars, loopVars, mirrorVars, leafVars, nodeVars,
                    scanVars, parVars, dwVars, rootVars, pm_base, pm_round >>

\* main.rs:122-123  m.seq.push(random_non_ws_atom(..))
PushAtom ==
    /\ pm_pc = "branch"
    /\ Len(pm_m) < MaxFlatLen
    /\ \E a \in RandomNonWsAtoms : pm_m' = Append(pm_m, a)
    /\ pm_pc' = "ws"
    /\ UNCHANGED << scoreVars, loopVars, mirrorVars, leafVars, nodeVars,
                    scanVars, parVars, dwVars, rootVars, pm_base, pm_round >>

\* main.rs:124-125, 139  apply_random_edit is entered
ApplyRandomEdit ==
    /\ pm_pc = "branch"
    /\ pm_pc' = "edit"
    /\ pm_round' = 0
    /\ UNCHANGED << scoreVars, loopVars, mirrorVars, leafVars, nodeVars,
                    scanVars, parVars, dwVars, rootVars, pm_base, pm_m >>

\* main.rs:139-171  one iteration of `for _ in 0..6`
EditRound ==
    /\ pm_pc = "edit"
    /\ pm_round < EditRounds
    /\ IF EditIndexPanics(pm_m)
       THEN pm_pc' = "panic" /\ UNCHANGED << pm_m, pm_round >>
       ELSE \E k \in RandomRange(0, Len(pm_m)) :
              \/ /\ \E a \in EditedAtoms(pm_m[k + 1]) :
                        pm_m' = Edited(pm_m, k, a)
                 /\ pm_round' = pm_round + 1
                 /\ pm_pc' = "edit"
              \/ /\ EditDiverges(pm_m[k + 1])
                 /\ pm_pc' = "hung"
                 /\ UNCHANGED << pm_m, pm_round >>
    /\ UNCHANGED << scoreVars, loopVars, mirrorVars, leafVars, nodeVars,
                    scanVars, parVars, dwVars, rootVars, pm_base >>

\* main.rs:139, 172  the loop of apply_random_edit ends
EditReturn ==
    /\ pm_pc = "edit"
    /\ pm_round = EditRounds
    /\ pm_pc' = "ws"
    /\ UNCHANGED << scoreVars, loopVars, mirrorVars, leafVars, nodeVars,
                    scanVars, parVars, dwVars, rootVars, pm_base, pm_m,
                    pm_round >>

\* main.rs:128-132  the optional trailing whitespace, then out.push(m)
PushWhitespace ==
    /\ pm_pc = "ws"
    /\ \/ /\ Len(pm_m) < MaxFlatLen
          /\ pm_m' = Append(pm_m, WhitespaceAtom)
       \/ pm_m' = pm_m
    /\ pm_pc' = "pushed"
    /\ UNCHANGED << scoreVars, loopVars, mirrorVars, leafVars, nodeVars,
                    scanVars, parVars, dwVars, rootVars, pm_base, pm_round >>

\* main.rs:52-60, 116  the next call or iteration: its base is the same
\* individual or, once appended to mirs, the child
NextBase ==
    /\ pm_pc = "pushed"
    /\ pm_base' \in { pm_base, pm_m }
    /\ pm_m' = << >>
    /\ pm_round' = 0
    /\ pm_pc' = "clone"
    /\ UNCHANGED << scoreVars, loopVars, mirrorVars, leafVars, nodeVars,
                    scanVars, parVars, dwVars, rootVars >>

PermuteNext ==
    \/ PermuteClone
    \/ PushAtom
    \/ ApplyRandomEdit
    \/ EditRound
    \/ EditReturn
    \/ PushWhitespace
    \/ NextBase

SpecPermute == PermuteInit /\ [][PermuteNext]_vars

\* C21: in the flat-sequence loop of main.rs every individual has an atom
\* sequence of length at least 1, a child's sequence is never shorter than
\* its parent's, and the index of apply_random_edit is never drawn from an
\* empty range.
C21_SequencesNeverEmpty ==
    /\ Len(pm_base) >= 1
    /\ pm_pc \in {"branch", "edit", "ws", "pushed"} =>
          /\ Len(pm_m) >= 1
          /\ Len(pm_m) >= Len(pm_base)
    /\ pm_pc = "edit" => ~EditIndexPanics(pm_m)
    /\ pm_pc # "panic"

\* a child of a child of the seed, edited in all six rounds and longer than
\* its parent, has been pushed
C21_Witness ==
    /\ pm_pc = "pushed"
    /\ pm_round = EditRounds
    /\ pm_base # SeedSeq
    /\ Len(pm_m) > Len(pm_base)
    /\ pm_m[1] # pm_base[1]

\* ------------------------------------------- main.rs: distinct_words -----
\* SpecDistinct follows one call of distinct_words, its recursive calls
\* included, on pools, counts and avoid lists drawn from bounded sets.

\* the order of String (byte-wise) on the words of the model
WordOrder == << "alpha", "brisk", "too" >>
Rank(w) == CHOOSE j \in DOMAIN WordOrder : WordOrder[j] = w

\* rand's choose_multiple(rng, amount): min(amount, len) elements of
\* distinct positions, in random order
ChooseMultiple(pool, amount) ==
    LET n == Min(amount, Len(pool))
    IN  { [j \in 1..n |-> pool[q[j]]] : q \in InjectiveSeqs(DOMAIN pool, n) }

\* main.rs:213, 217  sort_unstable
SortUnstable(s) ==
    LET place(t, w) ==
            InsertAt(t, 1 + Cardinality({ j \in DOMAIN t : Rank(t[j]) <= Rank(w) }), w)
        acc[n \in 0..Len(s)] ==
            IF n = 0 THEN << >> ELSE place(acc[n - 1], s[n])
    IN  acc[Len(s)]

\* main.rs:214, 218  dedup: of each run of equal neighbours the first is kept
Dedup(s) ==
    LET acc[n \in 0..Len(s)] ==
            IF n = 0 THEN << >>
            ELSE IF n > 1 /\ s[n] = s[n - 1] THEN acc[n - 1]
            ELSE Append(acc[n - 1], s[n])
    IN  acc[Len(s)]

\* main.rs:215-219  `a == out` of `if let Some(orig) = avoid`
EqualsAvoid(avoid, list) ==
    avoid # None /\ Dedup(SortUnstable(avoid[1])) = list

\* the word lists of at most n words of the pool
WordLists(n) ==
    UNION { [1..m -> { WordPool[j] : j \in DOMAIN WordPool }] : m \in 0..n }

DistinctInit ==
    /\ dw_pc = "draw"
    /\ dw_pool \in WordLists(MaxPool) \ { << >> }
    /\ dw_k \in 0..MaxK
    /\ dw_avoid \in { None } \cup { Some(a) : a \in WordLists(MaxAvoid) }
    /\ dw_out = << >>
    /\ ScoreIdle /\ LoopIdle /\ MirrorIdle
    /\ LeafIdle /\ NodeIdle /\ ScanIdle /\ ParIdle
    /\ PermIdle /\ RootIdle

\* main.rs:212  pool.choose_multiple(rng, k.max(1)).cloned().collect()
Draw ==
    /\ dw_pc = "draw"
    /\ dw_out' \in ChooseMultiple(dw_pool, Max(dw_k, 1))
    /\ dw_pc' = "sort"
    /\ UNCHANGED << scoreVars, loopVars, mirrorVars, leafVars, nodeVars,
                    scanVars, parVars, permVars, rootVars, dw_pool, dw_k,
                    dw_avoid >>

\* main.rs:213-214  out.sort_unstable(); out.dedup()
SortDedup ==
    /\ dw_pc = "sort"
    /\ dw_out' = Dedup(SortUnstable(dw_out))
    /\ dw_pc' = "compare"
    /\ UNCHANGED << scoreVars, loopVars, mirrorVars, leafVars, nodeVars,
                    scanVars, parVars, permVars, rootVars, dw_pool, dw_k,
                    dw_avoid >>

\* main.rs:219-221  return distinct_words(pool, k, rng, avoid): the call
\* starts again with the same arguments
Recurse ==
    /\ dw_pc = "compare"
    /\ EqualsAvoid(dw_avoid, dw_out)
    /\ dw_out' = << >>
    /\ dw_pc' = "draw"
    /\ UNCHANGED << scoreVars, loopVars, mirrorVars, leafVars, nodeVars,
                    scanVars, parVars, permVars, rootVars, dw_pool, dw_k,
                    dw_avoid >>

\* main.rs:223  out
Return ==
    /\ dw_pc = "compare"
    /\ ~EqualsAvoid(dw_avoid, dw_out)
    /\ dw_pc' = "return"
    /\ UNCHANGED << scoreVars, loopVars, mirrorVars, leafVars, nodeVars,
                    scanVars, parVars, permVars, rootVars, dw_pool, dw_k,
                    dw_avoid, dw_out >>

DistinctNext == Draw \/ SortDedup \/ Recurse \/ Return

SpecDistinct == DistinctInit /\ [][DistinctNext]_vars

\* a draw that differs from the avoid list
DrawDiffering == Draw /\ ~EqualsAvoid(dw_avoid, Dedup(SortUnstable(dw_out')))

\* the call keeps running, and the generator does not withhold a differing
\* draw for ever where there is one
SpecDistinctFair ==
    SpecDistinct /\ WF_vars(DistinctNext) /\ SF_vars(DrawDiffering)

\* what the caller holds after a return: a non-empty, sorted, duplicate-free
\* list of pool words that differs from the deduplicated avoid list
DistinctWordsPost ==
    /\ dw_out # << >>
    /\ \A j \in 1..(Len(dw_out) - 1) : Rank(dw_out[j]) < Rank(dw_out[j + 1])
    /\ \A j \in DOMAIN dw_out : \E n \in DOMAIN dw_pool : dw_pool[n] = dw_out[j]
    /\ ~EqualsAvoid(dw_avoid, dw_out)

\* C22: distinct_words terminates for every non-empty pool, every k and
\* every avoid list, and returns a non-empty, sorted, duplicate-free list of
\* pool words that differs from the deduplicated avoid list.
C22_TerminatesWithDistinctList == <>(dw_pc = "return" /\ DistinctWordsPost)

\* the list a return hands back is well formed (the part of C22 that holds)
DistinctReturnsWellFormed == dw_pc = "return" => DistinctWordsPost

\* the pools and avoid lists for which no draw differs
NoDifferingDraw ==
    \A d \in ChooseMultiple(dw_pool, Max(dw_k, 1)) :
        EqualsAvoid(dw_avoid, Dedup(SortUnstable(d)))

\* the call returns whenever some draw differs from the avoid list
DistinctTerminatesUnlessStuck == NoDifferingDraw \/ <>(dw_pc = "return")

\* ------------------------------------- mirror.rs: Mirror::mutate, once ---
\* SpecRoot applies Mirror::mutate once to a tree and keeps the root the
\* call started from; the fresh leaves have every length create_random_layer
\* draws.

\* the trees Mirror::mutate is called on: those of SpecNode, a grown tree
\* and a tree of depth 2
RootSeeds ==
    SeedTrees
    \cup { Or(<< Leaf(<< MirrorWord(TheWord) >>), Leaf(<< MirrorWhitespace >>) >>),
           Or(<< And(<< Leaf(<< MirrorWhitespace >>), Leaf(<< >>) >>),
                 Leaf(<< MirrorWord(TheWord), MirrorWhitespace,
                         MirrorUPOS(<< 2 >>) >>) >>) }

RootInit ==
    /\ r_pc = "call"
    /\ r_root \in RootSeeds
    /\ r_prev = r_root
    /\ r_op = "none"
    /\ ScoreIdle /\ LoopIdle /\ MirrorIdle
    /\ LeafIdle /\ NodeIdle /\ ScanIdle /\ ParIdle
    /\ PermIdle /\ DistinctIdle

\* mirror.rs:253-266  the grow branch, left by `return`
RootGrow ==
    /\ r_pc = "call"
    /\ r_prev' = r_root
    /\ r_op' = "grow"
    /\ IF CreateRandomLayerPanics
       THEN r_pc' = "panic" /\ UNCHANGED r_root
       ELSE r_root' \in GrowWith(r_root, FreshLeaves) /\ r_pc' = "returned"
    /\ UNCHANGED << scoreVars, loopVars, mirrorVars, leafVars, nodeVars,
                    scanVars, parVars, permVars, dwVars >>

\* mirror.rs:268-271  the reset branch, left by `return`
RootReset ==
    /\ r_pc = "call"
    /\ r_prev' = r_root
    /\ r_op' = "reset"
    /\ IF CreateRandomLayerPanics
       THEN r_pc' = "panic" /\ UNCHANGED r_root
       ELSE r_root' \in FreshLeaves /\ r_pc' = "returned"
    /\ UNCHANGED << scoreVars, loopVars, mirrorVars, leafVars, nodeVars,
                    scanVars, parVars, permVars, dwVars >>

\* mirror.rs:273  self.root.mutate(rng)
RootRecurse ==
    /\ r_pc = "call"
    /\ r_prev' = r_root
    /\ r_op' = "recurse"
    /\ \E panics \in { b \in BOOLEAN : b => NodeMutatePanics(r_root) } :
        IF panics
        THEN r_pc' = "panic" /\ UNCHANGED r_root
        ELSE r_root' \in NodeMutate(r_root) /\ r_pc' = "returned"
    /\ UNCHANGED << scoreVars, loopVars, mirrorVars, leafVars, nodeVars,
                    scanVars, parVars, permVars, dwVars >>

RootNext == RootGrow \/ RootReset \/ RootRecurse

SpecRoot == RootInit /\ [][RootNext]_vars

\* a Leaf of 1 to 3 atoms of create_random_step, with no children
IsFreshLeaf(n) ==
    /\ n.kind = "Leaf"
    /\ n.children = << >>
    /\ Len(n.seq) \in 1..3
    /\ \A j \in DOMAIN n.seq : n.seq[j] \in CreateRandomStep

\* C23: the root-level grow mutation keeps the whole previous tree unchanged
\* as the first child of a new two-child And/Or root whose second child is a
\* fresh random leaf, the root-level reset mutation replaces the whole tree
\* by a single Leaf of 1 to 3 atoms, and neither applies a recursive
\* mutation in that step.
C23_GrowAndResetAtRoot ==
    /\ (r_pc = "returned" /\ r_op = "grow") =>
          /\ r_root.kind \in {"And", "Or"}
          /\ r_root.seq = << >>
          /\ Len(r_root.children) = 2
          /\ r_root.children[1] = r_prev
          /\ IsFreshLeaf(r_root.children[2])
    /\ (r_pc = "returned" /\ r_op = "reset") => IsFreshLeaf(r_root)

\* a tree of depth 2 has been grown by a sibling of three atoms
C23_Witness ==
    /\ r_pc = "returned"
    /\ r_op = "grow"
    /\ r_prev.kind = "Or"
    /\ Len(r_prev.children) = 2
    /\ r_prev.children[1].kind = "And"
    /\ r_root.kind = "And"
    /\ Len(r_root.children[2].seq) = 3

=============================================================================
